---- MODULE Spec2Model ----
(***************************************************************************)
(* A model of GitHubHelper (src/src/github-helper.ts): the sequential      *)
(* pusher pushSignedCommits / createCommit / createOrUpdateRef, the atomic *)
(* pusher pushSignedCommit and the pull-request reconciler createOrUpdate, *)
(* each running against a remote host that other actors may change.        *)
(*                                                                         *)
(* Every remote call is one action: the host applies it and answers, or    *)
(* the call fails (ok = FALSE: a transport failure, nothing applied).      *)
(* The blob uploads of one commit are issued together and complete one by  *)
(* one in any order.                                                       *)
(***************************************************************************)
EXTENDS Naturals, Sequences, FiniteSets, TLC

\* ------------------------------------------------------------- bounds
MaxCommits == 2      \* longest list of local commits given to pushSignedCommits
MaxChanges == 2      \* longest change list of one local commit
MaxOther   == 1      \* how many times another actor writes to the host
MaxRuns    == 2      \* successive invocations of createOrUpdate
MaxLen     == 4      \* longest repository string given to parseRepository

\* ------------------------------------------------------------- values
EmptySha == <<>>                 \* '' : the initial headSha
NullSha  == <<"null">>           \* null : a tree entry that removes its path
B0       == <<"B", 0>>           \* the commit the base branch points at
RemoteOid(n) == <<"R", n>>       \* the n-th hash the host hands out
OtherOid(n)  == <<"X", n>>       \* a commit pushed by another actor
LocalSha(k)  == <<"L", k>>       \* the hash of the k-th local commit
LocalTree(k) == <<"LT", k>>      \* the tree hash the k-th local commit declares

\* Ref names are paths: "refs/heads/feature" is <<"refs", "heads", "feature">>.
Branches   == { <<"feature">>, <<"heads", "feature">> }
BaseBranch == <<"main">>
HeadsRef(b) == <<"refs", "heads">> \o b

\* ------------------------------------------------------------- inputs
\* The change lists a local commit may carry: none, or MaxChanges consecutive
\* changes of this list (a modification next to a deletion, two uploads side
\* by side, a status that is neither added, modified nor deleted).
MasterChanges ==
  << [path |-> "a.txt", mode |-> "100644", status |-> "M"],
     [path |-> "b.txt", mode |-> "100644", status |-> "D"],
     [path |-> "c.txt", mode |-> "100755", status |-> "A"],
     [path |-> "d.txt", mode |-> "100644", status |-> "M"],
     [path |-> "e.txt", mode |-> "120000", status |-> "T"] >>

ChangeLists ==
  { <<>> } \cup
  { SubSeq(MasterChanges, s, s + MaxChanges - 1) :
      s \in 1..(Len(MasterChanges) - MaxChanges + 1) }

\* The k-th local commit of a list: its parent is the local commit before it
\* (the base commit for the first one).
LocalCommit(k, changes) ==
  [ sha     |-> LocalSha(k),
    parents |-> << IF k = 1 THEN B0 ELSE LocalSha(k - 1) >>,
    tree    |-> LocalTree(k),
    subject |-> "s",
    body    |-> "b",
    changes |-> changes ]

CommitLists ==
  UNION { { [k \in 1..n |-> LocalCommit(k, cls[k])] :
              cls \in [1..n -> ChangeLists] } : n \in 0..MaxCommits }

VARIABLES
  \* the host
  refs,        \* full ref name -> hash, for the refs that exist
  objects,     \* the git objects the host stores
  nextOid,     \* the next hash the host hands out
  otherMoves,  \* writes made by other actors so far
  refs0,       \* the refs before the operation started
  refsAtProbe, \* the refs when the existence probe was answered
  refsAtWrite, \* the refs when the ref write (or the commit mutation) was applied
  failed,      \* the calls that failed in transport, with their place in calls
  \* the running operation
  op,          \* which public operation runs
  pc,          \* where it is
  err,         \* the error that reached the caller
  calls,       \* the remote calls issued so far, in order
  \* pushSignedCommits
  commits, branch, i, headSha, rets,
  \* createCommit
  treeSha, blob, treeObjects,
  \* createOrUpdateRef
  branchExists,
  \* pushSignedCommit
  base,          \* the base branch the new branch is created from
  changesGiven,  \* whether branchFileChanges was passed
  branchRef,     \* the answer of the last ref query
  \* the pull requests of the host
  pulls,         \* number -> pull request
  pulls0,        \* the pull requests before the operation started
  \* createOrUpdate
  inputs,        \* title, body, head branch, base, draft
  listed,        \* the numbers pulls.list returned
  results,       \* the records returned by the invocations so far
  \* createOrUpdatePullRequest
  meta,          \* the metadata steps passed so far (0..4)
  pullMeta,      \* the metadata the host holds: [number, field, value]
  logged,        \* the messages given to core.error
  \* parseRepository
  repository,    \* the string given
  parsed         \* what parseRepository returned for it

hostVars == << refs, objects, nextOid, otherMoves >>
histVars == << refs0, refsAtProbe, refsAtWrite, failed >>
seqVars  == << commits, branch, i, headSha, rets, treeSha, blob, treeObjects,
               branchExists >>
atomVars == << base, changesGiven, branchRef >>
prVars   == << pulls, pulls0, inputs, listed, results >>
moreVars == << meta, pullMeta, logged, repository, parsed >>
vars == << refs, objects, nextOid, otherMoves, refs0, refsAtProbe, refsAtWrite,
           failed, op, pc, err, calls,
           commits, branch, i, headSha, rets, treeSha, blob, treeObjects,
           branchExists, base, changesGiven, branchRef, pulls, pulls0, inputs, listed,
           results, meta, pullMeta, logged, repository, parsed >>

NoErr == [op |-> "none", cause |-> "none"]

\* What a call that did not succeed throws: the transport's failure, or the
\* host's rejection.
Failure(opName, ok) ==
  [op |-> opName, cause |-> IF ok THEN "rejected" ELSE "transport"]


\* ------------------------------------------------------------- the host
Obj(oid, kind, data) == [oid |-> oid, kind |-> kind, data |-> data]

HostHas(h, kind) == \E o \in objects : o.oid = h /\ o.kind = kind

ParentsOf(h) ==
  UNION { { o.data.parents[n] : n \in 1..Len(o.data.parents) } :
            o \in { x \in objects : x.oid = h /\ x.kind = "commit" } }

\* a is h or an ancestor of h among the commits the host stores
RECURSIVE IsAncestor(_, _)
IsAncestor(a, h) ==
  \/ a = h
  \/ \E p \in ParentsOf(h) : IsAncestor(a, p)

\* The REST ref endpoints (get, update) take the ref's name below "refs/".
RestResolve(ref) == <<"refs">> \o ref

\* get a reference: answers when the named ref exists, fails (404) otherwise
HostGetRef(ref) == RestResolve(ref) \in DOMAIN refs

\* update a reference without force: the ref exists, the hash is a commit of
\* the host and the move is a fast-forward
HostAcceptsUpdate(ref, sha) ==
  /\ RestResolve(ref) \in DOMAIN refs
  /\ HostHas(sha, "commit")
  /\ IsAncestor(refs[RestResolve(ref)], sha)

\* create a reference: the full name is free and the hash is a commit of the host
HostAcceptsCreate(fullRef, sha) ==
  /\ fullRef \notin DOMAIN refs
  /\ HostHas(sha, "commit")

SetRef(fullRef, sha) ==
  [n \in DOMAIN refs \cup {fullRef} |-> IF n = fullRef THEN sha ELSE refs[n]]

InitHost ==
  /\ \E present \in SUBSET { HeadsRef(b) : b \in Branches } :
       refs = [n \in present \cup {HeadsRef(BaseBranch)} |-> B0]
  /\ objects = { Obj(B0, "commit", [parents |-> <<>>, tree |-> <<"BT", 0>>,
                                    message |-> <<"base">>]) }
  /\ nextOid = 1
  /\ otherMoves = 0
  /\ refs0 = refs
  /\ refsAtProbe = <<>>
  /\ refsAtWrite = <<>>
  /\ failed = <<>>
  /\ pullMeta = {}

\* Another actor pushes a commit of its own to a branch, creating the branch
\* when it does not exist.
OtherPush(b) ==
  /\ otherMoves < MaxOther
  /\ otherMoves' = otherMoves + 1
  /\ LET x == OtherOid(otherMoves + 1)
         parent == IF HeadsRef(b) \in DOMAIN refs THEN refs[HeadsRef(b)] ELSE B0
     IN /\ objects' = objects \cup
             { Obj(x, "commit", [parents |-> <<parent>>, tree |-> <<"XT", 0>>,
                                 message |-> <<"other">>]) }
        /\ refs' = SetRef(HeadsRef(b), x)
  /\ UNCHANGED << nextOid, op, pc, err, calls >>
  /\ UNCHANGED histVars
  /\ UNCHANGED << commits, i, headSha, rets, treeSha, blob, treeObjects, branchExists >>
  /\ UNCHANGED << branch, atomVars, prVars >>
  /\ UNCHANGED moreVars

\* ------------------------------------------------------------- createCommit
\* (a variant that uploads added files only)
NeedsBlobAddedOnly(change) == change.status = "A"

NeedsBlob(change) == change.status = "A" \/ change.status = "M"

Content(path) == <<"base64", path>>

TreeObject(change, sha) ==
  [path |-> change.path, mode |-> change.mode, sha |-> sha, type |-> "blob"]

Call(name, k, arg) == [op |-> name, i |-> k, arg |-> arg]

\* a call that failed in transport is remembered with the number of calls
\* issued up to and including it
Failed(name, ok, issued) ==
  IF ok THEN failed ELSE Append(failed, [op |-> name, at |-> issued])

BlobCalls(k, changes) ==
  LET need == SelectSeq(changes, NeedsBlob)
  IN  [j \in 1..Len(need) |->
         Call("createBlob", k, [content |-> Content(need[j].path),
                                encoding |-> "base64"])]

Message(c) == << c.subject, "", c.body >>

\* the parents createCommit submits for a local commit, given the hash the
\* previous iteration returned
CommitParents(c, previous) == c.parents

HasChangesAlways(c) == TRUE

\* if (commit.changes.length > 0)
HasChanges(c) == Len(c.changes) > 0

\* createCommit up to its first await: the declared tree, and every blob
\* upload of the change list issued at once
BeginCommit ==
  /\ op = "pushSignedCommits" /\ pc = "loop" /\ i <= Len(commits)
  /\ LET c == commits[i] IN
       /\ treeSha' = c.tree
       /\ IF HasChanges(c)
          THEN /\ blob' = [j \in 1..Len(c.changes) |->
                             IF NeedsBlob(c.changes[j]) THEN "inflight" ELSE "none"]
               /\ treeObjects' = [j \in 1..Len(c.changes) |->
                                    TreeObject(c.changes[j], NullSha)]
               /\ calls' = calls \o BlobCalls(i, c.changes)
               /\ pc' = "blobs"
          ELSE /\ blob' = <<>>
               /\ treeObjects' = <<>>
               /\ calls' = calls
               /\ pc' = "commit"
  /\ UNCHANGED << commits, branch, i, headSha, rets, branchExists, op, err >>
  /\ UNCHANGED hostVars
  /\ UNCHANGED histVars
  /\ UNCHANGED << atomVars, prVars >>
  /\ UNCHANGED moreVars

\* one blob upload completes; the first failure rejects Promise.all
BlobDone(j, ok) ==
  /\ op = "pushSignedCommits"
  /\ j \in DOMAIN blob /\ blob[j] = "inflight"
  /\ IF ok
     THEN /\ objects' = objects \cup
               { Obj(RemoteOid(nextOid), "blob", Content(commits[i].changes[j].path)) }
          /\ nextOid' = nextOid + 1
          /\ blob' = [blob EXCEPT ![j] = "ok"]
          /\ treeObjects' = [treeObjects EXCEPT ![j].sha = RemoteOid(nextOid)]
          /\ UNCHANGED << pc, err >>
     ELSE /\ blob' = [blob EXCEPT ![j] = "failed"]
          /\ pc' = IF pc = "blobs" THEN "error" ELSE pc
          /\ err' = IF pc = "blobs" THEN Failure("createBlob", ok) ELSE err
          /\ UNCHANGED << objects, nextOid, treeObjects >>
  /\ failed' = Failed("createBlob", ok, Len(calls))
  /\ UNCHANGED << refs, otherMoves, refs0, refsAtProbe, refsAtWrite, op, calls,
                  commits, branch, i, headSha, rets, treeSha, branchExists >>
  /\ UNCHANGED << atomVars, prVars >>
  /\ UNCHANGED moreVars

NoneFailed(b) == \A j \in DOMAIN b : b[j] # "failed"

\* await Promise.all(...): every upload issued has been answered with a hash
AllUploaded(b) == \A j \in DOMAIN b : b[j] \in {"none", "ok"}

\* every upload has succeeded: the tree-creation call
CreateTree(ok) ==
  /\ op = "pushSignedCommits" /\ pc = "blobs"
  /\ AllUploaded(blob)
  /\ calls' = Append(calls, Call("createTree", i,
                 [base_tree |-> commits[i].parents[1], tree |-> treeObjects]))
  /\ IF ok
     THEN /\ treeSha' = RemoteOid(nextOid)
          /\ objects' = objects \cup
               { Obj(RemoteOid(nextOid), "tree",
                     [base_tree |-> commits[i].parents[1], tree |-> treeObjects]) }
          /\ nextOid' = nextOid + 1
          /\ pc' = "commit"
          /\ err' = err
     ELSE /\ pc' = "error"
          /\ err' = Failure("createTree", ok)
          /\ UNCHANGED << treeSha, objects, nextOid >>
  /\ failed' = Failed("createTree", ok, Len(calls) + 1)
  /\ UNCHANGED << refs, otherMoves, refs0, refsAtProbe, refsAtWrite, op, commits,
                  branch, i, headSha, rets, blob, treeObjects, branchExists >>
  /\ UNCHANGED << atomVars, prVars >>
  /\ UNCHANGED moreVars

\* the commit-creation call; its answer becomes headSha and the loop goes on
CreateCommit(ok) ==
  /\ op = "pushSignedCommits" /\ pc = "commit"
  /\ LET arg == [parents |-> CommitParents(commits[i], headSha),
                 tree    |-> treeSha,
                 message |-> Message(commits[i])]
     IN /\ calls' = Append(calls, Call("createCommit", i, arg))
        /\ IF ok
           THEN /\ objects' = objects \cup { Obj(RemoteOid(nextOid), "commit", arg) }
                /\ nextOid' = nextOid + 1
                /\ headSha' = RemoteOid(nextOid)
                /\ rets' = Append(rets, RemoteOid(nextOid))
                /\ i' = i + 1
                /\ pc' = "loop"
                /\ err' = err
           ELSE /\ pc' = "error"
                /\ err' = Failure("createCommit", ok)
                /\ UNCHANGED << objects, nextOid, headSha, rets, i >>
  /\ failed' = Failed("createCommit", ok, Len(calls) + 1)
  /\ UNCHANGED << refs, otherMoves, refs0, refsAtProbe, refsAtWrite, op, commits,
                  branch, treeSha, blob, treeObjects, branchExists >>
  /\ UNCHANGED << atomVars, prVars >>
  /\ UNCHANGED moreVars

\* ------------------------------------------------------------- createOrUpdateRef
ProbeRefName(b)  == b
UpdateRefName(b) == <<"heads">> \o b
CreateRefName(b) == <<"refs", "heads">> \o b

\* .then(() => true, () => false): whatever way the probe fails, the branch
\* counts as absent
ProbeAnswer(fulfilled) == fulfilled

\* (a variant that moves the ref after each commit; a variant that moves the
\* ref in a finally block, also after a failure)
AtRefStepEachCommit == pc = "loop" /\ (i > Len(commits) \/ i > 1)

AtRefStepFinally ==
  \/ pc = "loop" /\ i > Len(commits)
  \/ pc = "error" /\ \A n \in 1..Len(calls) : calls[n].op # "getRef"

\* the for loop of pushSignedCommits is over and createOrUpdateRef starts
AtRefStep == pc = "loop" /\ i > Len(commits)

\* (a variant that falls back to an update when the create call fails)
UpdateChosenOrCreateFailed ==
  \/ pc = "write" /\ branchExists
  \/ /\ pc = "error" /\ err.op = "createRef"
     /\ \A n \in 1..Len(calls) : calls[n].op # "updateRef"

\* if (branchExists) ... else ...
UpdateChosen == pc = "write" /\ branchExists
CreateChosen == pc = "write" /\ ~branchExists

\* the existence probe
GetRef(ok) ==
  /\ op = "pushSignedCommits" /\ AtRefStep
  /\ calls' = Append(calls, Call("getRef", 0, [ref |-> ProbeRefName(branch)]))
  /\ branchExists' = ProbeAnswer(ok /\ HostGetRef(ProbeRefName(branch)))
  /\ pc' = "write"
  /\ refsAtProbe' = refs
  /\ failed' = Failed("getRef", ok, Len(calls) + 1)
  /\ UNCHANGED << commits, branch, i, headSha, rets, treeSha, blob, treeObjects,
                  op, err, refs0, refsAtWrite >>
  /\ UNCHANGED hostVars
  /\ UNCHANGED << atomVars, prVars >>
  /\ UNCHANGED moreVars

UpdateRef(ok) ==
  /\ op = "pushSignedCommits" /\ UpdateChosen
  /\ LET arg == [sha |-> headSha, ref |-> UpdateRefName(branch), force |-> FALSE]
     IN /\ calls' = Append(calls, Call("updateRef", 0, arg))
        /\ IF ok /\ HostAcceptsUpdate(arg.ref, arg.sha)
           THEN /\ refs' = SetRef(RestResolve(arg.ref), arg.sha)
                /\ pc' = "done"
                /\ err' = err
           ELSE /\ refs' = refs
                /\ pc' = "error"
                /\ err' = Failure("updateRef", ok)
  /\ refsAtWrite' = refs
  /\ failed' = Failed("updateRef", ok, Len(calls) + 1)
  /\ UNCHANGED << objects, nextOid, otherMoves, op, refs0, refsAtProbe >>
  /\ UNCHANGED seqVars
  /\ UNCHANGED << atomVars, prVars >>
  /\ UNCHANGED moreVars

CreateRef(ok) ==
  /\ op = "pushSignedCommits" /\ CreateChosen
  /\ LET arg == [sha |-> headSha, ref |-> CreateRefName(branch)]
     IN /\ calls' = Append(calls, Call("createRef", 0, arg))
        /\ IF ok /\ HostAcceptsCreate(arg.ref, arg.sha)
           THEN /\ refs' = SetRef(arg.ref, arg.sha)
                /\ pc' = "done"
                /\ err' = err
           ELSE /\ refs' = refs
                /\ pc' = "error"
                /\ err' = Failure("createRef", ok)
  /\ refsAtWrite' = refs
  /\ failed' = Failed("createRef", ok, Len(calls) + 1)
  /\ UNCHANGED << objects, nextOid, otherMoves, op, refs0, refsAtProbe >>
  /\ UNCHANGED seqVars
  /\ UNCHANGED << atomVars, prVars >>
  /\ UNCHANGED moreVars

\* ------------------------------------------------------------- pushSignedCommits
\* the variables of the operations that do not run
IdleSeq ==
  /\ commits = <<>> /\ i = 1 /\ headSha = EmptySha /\ rets = <<>>
  /\ treeSha = EmptySha /\ blob = <<>> /\ treeObjects = <<>>
  /\ branchExists = FALSE

IdleAtomic == base = BaseBranch /\ changesGiven = TRUE /\ branchRef = <<>>

IdleMeta == meta = 0 /\ logged = <<>>

IdleParse == repository = <<>> /\ parsed = <<>>

IdlePulls ==
  /\ pulls = <<>> /\ pulls0 = <<>> /\ inputs = <<>> /\ listed = <<>> /\ results = <<>>

InitSeq ==
  /\ InitHost
  /\ IdleMeta
  /\ IdleParse
  /\ IdleAtomic
  /\ IdlePulls
  /\ op = "pushSignedCommits"
  /\ pc = "loop"
  /\ err = NoErr
  /\ calls = <<>>
  /\ commits \in CommitLists
  /\ branch \in Branches
  /\ i = 1
  /\ headSha = EmptySha
  /\ rets = <<>>
  /\ treeSha = EmptySha
  /\ blob = <<>>
  /\ treeObjects = <<>>
  /\ branchExists = FALSE

NextSeq ==
  \/ BeginCommit
  \/ \E j \in DOMAIN blob, ok \in BOOLEAN : BlobDone(j, ok)
  \/ \E ok \in BOOLEAN : CreateTree(ok)
  \/ \E ok \in BOOLEAN : CreateCommit(ok)
  \/ \E ok \in BOOLEAN : GetRef(ok)
  \/ \E ok \in BOOLEAN : UpdateRef(ok)
  \/ \E ok \in BOOLEAN : CreateRef(ok)
  \/ \E b \in Branches : OtherPush(b)

SpecSeq == InitSeq /\ [][NextSeq]_vars


\* ------------------------------------------------------------- pushSignedCommit
\* The query interface finds a ref by its full name, or by its short name
\* among the branches.
GqlResolve(name) == IF name \in DOMAIN refs THEN name ELSE HeadsRef(name)

\* repository.ref of the answer: <<>> for null, else << target.oid >>
GqlRef(name) ==
  IF GqlResolve(name) \in DOMAIN refs THEN << refs[GqlResolve(name)] >> ELSE <<>>

\* the host applies createCommitOnBranch only to an existing branch whose
\* head is the expected one
HostAcceptsCommitOnBranch(b, expected) ==
  /\ GqlResolve(b) \in DOMAIN refs
  /\ refs[GqlResolve(b)] = expected

NewBranchNameUnqualified(b) == b

\* 'refs/heads/' + branch
NewBranchName(b) == <<"refs", "heads">> \o b

\* headOid: branchRef.repository.ref!.target!.oid
ExpectedHead == branchRef[1]

\* (a variant that sends the mutation again after it failed)
AtPushStepOrRetry ==
  \/ pc = "ready"
  \/ /\ pc = "error" /\ err.op = "createCommitOnBranch"
     /\ Cardinality({ n \in 1..Len(calls) : calls[n].op = "createCommitOnBranch" }) < 2

\* the branch is known or was created: the commit mutation is next
AtPushStep == pc = "ready"

\* the initial query for the branch
QueryBranch(ok) ==
  /\ op = "pushSignedCommit" /\ pc = "query"
  /\ calls' = Append(calls, Call("refQuery", 0, [branchName |-> branch]))
  /\ failed' = Failed("refQuery", ok, Len(calls) + 1)
  /\ IF ok
     THEN /\ branchRef' = GqlRef(branch)
          /\ refsAtProbe' = refs
          /\ pc' = IF GqlRef(branch) = <<>> THEN "queryBase" ELSE "ready"
          /\ err' = err
     ELSE /\ pc' = "error"
          /\ err' = Failure("refQuery", ok)
          /\ UNCHANGED << branchRef, refsAtProbe >>
  /\ UNCHANGED << refs0, refsAtWrite, op, branch, base, changesGiven >>
  /\ UNCHANGED << commits, i, headSha, rets, treeSha, blob, treeObjects, branchExists >>
  /\ UNCHANGED << refs, objects, nextOid, otherMoves >>
  /\ UNCHANGED prVars
  /\ UNCHANGED moreVars

NullRefNever(answer) == FALSE

\* repository.ref of an answer is null, so that ref!.target throws
NullRef(answer) == answer = <<>>

\* the branch does not exist: the query for the base, whose answer is read
\* (ref!.target!.oid) before it is tested
QueryBase(ok) ==
  /\ op = "pushSignedCommit" /\ pc = "queryBase"
  /\ calls' = Append(calls, Call("refQuery", 0, [branchName |-> base]))
  /\ failed' = Failed("refQuery", ok, Len(calls) + 1)
  /\ IF ok
     THEN /\ branchRef' = GqlRef(base)
          /\ IF NullRef(GqlRef(base))
             THEN pc' = "error" /\ err' = [op |-> "TypeError", cause |-> "null ref"]
             ELSE pc' = "createBranch" /\ err' = err
     ELSE /\ pc' = "error"
          /\ err' = Failure("refQuery", ok)
          /\ UNCHANGED branchRef
  /\ UNCHANGED << refs0, refsAtProbe, refsAtWrite, op, branch, base, changesGiven >>
  /\ UNCHANGED << commits, i, headSha, rets, treeSha, blob, treeObjects, branchExists >>
  /\ UNCHANGED << refs, objects, nextOid, otherMoves >>
  /\ UNCHANGED prVars
  /\ UNCHANGED moreVars

\* the branch-creation mutation, at the base's hash
CreateBranch(ok) ==
  /\ op = "pushSignedCommit" /\ pc = "createBranch"
  /\ LET arg == [branchName |-> NewBranchName(branch), oid |-> branchRef[1]]
     IN /\ calls' = Append(calls, Call("createRefMutation", 0, arg))
        /\ IF ok /\ HostAcceptsCreate(arg.branchName, arg.oid)
           THEN /\ refs' = SetRef(arg.branchName, arg.oid)
                /\ pc' = "ready"
                /\ err' = err
           ELSE /\ refs' = refs
                /\ pc' = "error"
                /\ err' = Failure("createRefMutation", ok)
  /\ failed' = Failed("createRefMutation", ok, Len(calls) + 1)
  /\ UNCHANGED << refs0, refsAtProbe, refsAtWrite, op, branch >>
  /\ UNCHANGED << commits, i, headSha, rets, treeSha, blob, treeObjects, branchExists >>
  /\ UNCHANGED << objects, nextOid, otherMoves >>
  /\ UNCHANGED << atomVars, prVars >>
  /\ UNCHANGED moreVars

\* branchFileChanges!.additions of an absent argument throws
MissingChanges ==
  /\ op = "pushSignedCommit" /\ pc = "ready" /\ ~changesGiven
  /\ pc' = "error"
  /\ err' = [op |-> "TypeError", cause |-> "no file changes"]
  /\ UNCHANGED << calls, op, branch >>
  /\ UNCHANGED << commits, i, headSha, rets, treeSha, blob, treeObjects, branchExists >>
  /\ UNCHANGED << hostVars, histVars, atomVars, prVars >>
  /\ UNCHANGED moreVars

\* the create-commit-on-branch mutation
PushCommit(ok) ==
  /\ op = "pushSignedCommit" /\ AtPushStep /\ changesGiven
  /\ LET arg == [branchName |-> branch, expectedHeadOid |-> ExpectedHead,
                 commitMessage |-> "m"]
     IN /\ calls' = Append(calls, Call("createCommitOnBranch", 0, arg))
        /\ IF ok /\ HostAcceptsCommitOnBranch(arg.branchName, arg.expectedHeadOid)
           THEN /\ objects' = objects \cup
                     { Obj(RemoteOid(nextOid), "commit",
                           [parents |-> << arg.expectedHeadOid >>,
                            tree |-> <<"RT", nextOid>>, message |-> <<"m">>]) }
                /\ nextOid' = nextOid + 1
                /\ refs' = SetRef(GqlResolve(arg.branchName), RemoteOid(nextOid))
                /\ pc' = "done"
                /\ err' = err
           ELSE /\ pc' = "error"
                /\ err' = Failure("createCommitOnBranch", ok)
                /\ UNCHANGED << refs, objects, nextOid >>
  /\ refsAtWrite' = refs
  /\ failed' = Failed("createCommitOnBranch", ok, Len(calls) + 1)
  /\ UNCHANGED << refs0, refsAtProbe, otherMoves, op, branch >>
  /\ UNCHANGED << commits, i, headSha, rets, treeSha, blob, treeObjects, branchExists >>
  /\ UNCHANGED << atomVars, prVars >>
  /\ UNCHANGED moreVars

MissingBase == <<"gone">>

InitAtomic ==
  /\ InitHost
  /\ IdleMeta
  /\ IdleParse
  /\ IdleSeq
  /\ IdlePulls
  /\ op = "pushSignedCommit"
  /\ pc = "query"
  /\ err = NoErr
  /\ calls = <<>>
  /\ branch = <<"feature">>
  /\ base \in { BaseBranch, MissingBase }
  /\ changesGiven \in BOOLEAN
  /\ branchRef = <<>>

NextAtomic ==
  \/ \E ok \in BOOLEAN : QueryBranch(ok)
  \/ \E ok \in BOOLEAN : QueryBase(ok)
  \/ \E ok \in BOOLEAN : CreateBranch(ok)
  \/ MissingChanges
  \/ \E ok \in BOOLEAN : PushCommit(ok)
  \/ OtherPush(branch)

SpecAtomic == InitAtomic /\ [][NextAtomic]_vars

\* ------------------------------------------------------------- createOrUpdate
\* `${headOwner}:${inputs.branch}`, headOwner the text of headRepository
\* before its first '/'
HeadBranch(headRepository, b) == << headRepository[1], b >>

HeadRepository == << "fork-owner", "repo" >>

Pull(head, baseName, state, title, body) ==
  [head |-> head, base |-> baseName, state |-> state, title |-> title, body |-> body]

\* the numbers of the open pull requests of a head and base, as pulls.list
\* returns them
OpenPulls(ps, head, baseName) ==
  SelectSeq([n \in 1..Len(ps) |-> n],
            LAMBDA n : /\ ps[n].state = "open"
                       /\ ps[n].head = head
                       /\ ps[n].base = baseName)

\* the message of the error pulls.create throws
CreateErrorMessage(ok) ==
  IF ok THEN "A pull request already exists for" ELSE "transport failure"

AlreadyExistsAny(message) == TRUE

\* utils.getErrorMessage(e).includes(`A pull request already exists for`)
AlreadyExists(message) == message = "A pull request already exists for"

CreatedRecord(number) == [number |-> number, created |-> TRUE]

UpdatedRecordAsCreated(number) == [number |-> number, created |-> TRUE]

UpdatedRecord(number) == [number |-> number, created |-> FALSE]

\* createOrUpdate runs on its own or as the first step of
\* createOrUpdatePullRequest
InCreateOrUpdate == op \in {"createOrUpdate", "createOrUpdatePullRequest"}

\* pulls.create: the host refuses a second open pull request for a head and
\* base; the refusal is recognised by its message, any other error is rethrown
CreatePull(ok) ==
  /\ InCreateOrUpdate /\ pc = "create"
  /\ LET head == HeadBranch(HeadRepository, inputs.branch)
         arg == [title |-> inputs.title, head |-> head, head_repo |-> HeadRepository,
                 base |-> inputs.base, body |-> inputs.body, draft |-> inputs.draft]
     IN /\ calls' = Append(calls, Call("pulls.create", 0, arg))
        /\ IF ok /\ OpenPulls(pulls, head, inputs.base) = <<>>
           THEN /\ pulls' = Append(pulls, Pull(head, inputs.base, "open",
                                               inputs.title, inputs.body))
                /\ results' = Append(results, CreatedRecord(Len(pulls) + 1))
                /\ pc' = "returned"
                /\ err' = err
           ELSE /\ pc' = IF AlreadyExists(CreateErrorMessage(ok)) THEN "list" ELSE "error"
                /\ err' = IF AlreadyExists(CreateErrorMessage(ok))
                          THEN err ELSE Failure("pulls.create", ok)
                /\ UNCHANGED << pulls, results >>
  /\ failed' = Failed("pulls.create", ok, Len(calls) + 1)
  /\ UNCHANGED << refs0, refsAtProbe, refsAtWrite, op, branch, pulls0, inputs, listed >>
  /\ UNCHANGED << commits, i, headSha, rets, treeSha, blob, treeObjects, branchExists >>
  /\ UNCHANGED << refs, objects, nextOid, otherMoves >>
  /\ UNCHANGED atomVars
  /\ UNCHANGED moreVars

\* pulls.list, filtered by state open, head and base
ListPulls(ok) ==
  /\ InCreateOrUpdate /\ pc = "list"
  /\ LET head == HeadBranch(HeadRepository, inputs.branch)
         arg == [state |-> "open", head |-> head, base |-> inputs.base]
     IN /\ calls' = Append(calls, Call("pulls.list", 0, arg))
        /\ IF ok
           THEN /\ listed' = OpenPulls(pulls, arg.head, arg.base)
                /\ pc' = "update"
                /\ err' = err
           ELSE /\ listed' = listed
                /\ pc' = "error"
                /\ err' = Failure("pulls.list", ok)
  /\ failed' = Failed("pulls.list", ok, Len(calls) + 1)
  /\ UNCHANGED << refs0, refsAtProbe, refsAtWrite, op, branch, pulls, pulls0, inputs,
                  results >>
  /\ UNCHANGED << commits, i, headSha, rets, treeSha, blob, treeObjects, branchExists >>
  /\ UNCHANGED << refs, objects, nextOid, otherMoves >>
  /\ UNCHANGED atomVars
  /\ UNCHANGED moreVars

NoPullListedReturns ==
  /\ InCreateOrUpdate /\ pc = "update" /\ listed = <<>>
  /\ pc' = "returned"
  /\ results' = Append(results, UpdatedRecord(0))
  /\ UNCHANGED << calls, op, err, branch, pulls, pulls0, inputs, listed >>
  /\ UNCHANGED << commits, i, headSha, rets, treeSha, blob, treeObjects, branchExists >>
  /\ UNCHANGED << hostVars, histVars, atomVars >>
  /\ UNCHANGED moreVars

\* pulls[0].number of an empty list throws
NoPullListed ==
  /\ InCreateOrUpdate /\ pc = "update" /\ listed = <<>>
  /\ pc' = "error"
  /\ err' = [op |-> "TypeError", cause |-> "no pull request listed"]
  /\ UNCHANGED << calls, op, branch >>
  /\ UNCHANGED << commits, i, headSha, rets, treeSha, blob, treeObjects, branchExists >>
  /\ UNCHANGED << hostVars, histVars, atomVars, prVars >>
  /\ UNCHANGED moreVars

\* pulls.update of the first pull request listed
UpdatePull(ok) ==
  /\ InCreateOrUpdate /\ pc = "update" /\ listed # <<>>
  /\ LET arg == [pull_number |-> listed[1], title |-> inputs.title,
                 body |-> inputs.body]
     IN /\ calls' = Append(calls, Call("pulls.update", 0, arg))
        /\ IF ok
           THEN /\ pulls' = [pulls EXCEPT ![arg.pull_number].title = arg.title,
                                          ![arg.pull_number].body = arg.body]
                /\ results' = Append(results, UpdatedRecord(arg.pull_number))
                /\ pc' = "returned"
                /\ err' = err
           ELSE /\ pc' = "error"
                /\ err' = Failure("pulls.update", ok)
                /\ UNCHANGED << pulls, results >>
  /\ failed' = Failed("pulls.update", ok, Len(calls) + 1)
  /\ UNCHANGED << refs0, refsAtProbe, refsAtWrite, op, branch, pulls0, inputs, listed >>
  /\ UNCHANGED << commits, i, headSha, rets, treeSha, blob, treeObjects, branchExists >>
  /\ UNCHANGED << refs, objects, nextOid, otherMoves >>
  /\ UNCHANGED atomVars
  /\ UNCHANGED moreVars

\* the caller invokes createOrUpdate again with the same inputs
CallAgain ==
  /\ op = "createOrUpdate" /\ pc = "returned" /\ Len(results) < MaxRuns
  /\ pc' = "create"
  /\ listed' = <<>>
  /\ UNCHANGED << calls, op, err, branch, pulls, pulls0, inputs, results >>
  /\ UNCHANGED << commits, i, headSha, rets, treeSha, blob, treeObjects, branchExists >>
  /\ UNCHANGED << hostVars, histVars, atomVars >>
  /\ UNCHANGED moreVars

\* another actor closes an open pull request
OtherClosesPull(n) ==
  /\ otherMoves < MaxOther
  /\ n \in 1..Len(pulls) /\ pulls[n].state = "open"
  /\ otherMoves' = otherMoves + 1
  /\ pulls' = [pulls EXCEPT ![n].state = "closed"]
  /\ UNCHANGED << refs, objects, nextOid, op, pc, err, calls, branch >>
  /\ UNCHANGED << pulls0, inputs, listed, results >>
  /\ UNCHANGED << commits, i, headSha, rets, treeSha, blob, treeObjects, branchExists >>
  /\ UNCHANGED << histVars, atomVars >>
  /\ UNCHANGED moreVars

\* another actor opens a pull request for the same head and base
OtherOpensPull ==
  /\ otherMoves < MaxOther
  /\ OpenPulls(pulls, HeadBranch(HeadRepository, inputs.branch), inputs.base) = <<>>
  /\ otherMoves' = otherMoves + 1
  /\ pulls' = Append(pulls, Pull(HeadBranch(HeadRepository, inputs.branch),
                                 inputs.base, "open", "theirs", "theirs"))
  /\ UNCHANGED << refs, objects, nextOid, op, pc, err, calls, branch >>
  /\ UNCHANGED << pulls0, inputs, listed, results >>
  /\ UNCHANGED << commits, i, headSha, rets, treeSha, blob, treeObjects, branchExists >>
  /\ UNCHANGED << histVars, atomVars >>
  /\ UNCHANGED moreVars

InitPulls ==
  /\ InitHost
  /\ IdleMeta
  /\ IdleParse
  /\ IdleSeq
  /\ IdleAtomic
  /\ op = "createOrUpdate"
  /\ pc = "create"
  /\ err = NoErr
  /\ calls = <<>>
  /\ branch = <<"feature">>
  /\ inputs \in [ title : {"t"}, body : {"b"}, branch : {<<"feature">>},
                  base : {BaseBranch}, draft : BOOLEAN ]
  /\ pulls \in { <<>> } \cup
       { << Pull(HeadBranch(HeadRepository, <<"feature">>), BaseBranch, st, "old", "old") >> :
           st \in {"open", "closed"} }
  /\ pulls0 = pulls
  /\ listed = <<>>
  /\ results = <<>>

NextPulls ==
  \/ \E ok \in BOOLEAN : CreatePull(ok)
  \/ \E ok \in BOOLEAN : ListPulls(ok)
  \/ NoPullListed
  \/ \E ok \in BOOLEAN : UpdatePull(ok)
  \/ CallAgain
  \/ \E n \in 1..Len(pulls) : OtherClosesPull(n)
  \/ OtherOpensPull

SpecPulls == InitPulls /\ [][NextPulls]_vars

\* ------------------------------------------------- createOrUpdatePullRequest
\* the message the host gives when the token may not request team reviewers
ERROR_PR_REVIEW_TOKEN_SCOPE ==
  "Validation Failed: Could not resolve to a node with the global id of"

\* a team name is the sequence of its '/'-separated parts; the organisation
\* prefix is dropped
StripOrgPrefix(team) == IF Len(team) > 1 THEN Tail(team) ELSE team

StripOrgPrefixFromTeams(teams) == [t \in DOMAIN teams |-> StripOrgPrefix(teams[t])]

\* if (inputs.milestone)
HasMilestone(in) == in.milestone # 0

HasLabelsAlways(in) == TRUE

\* if (inputs.labels.length > 0)
HasLabels(in) == Len(in.labels) > 0

\* if (inputs.assignees.length > 0)
HasAssignees(in) == Len(in.assignees) > 0

RequestReviewersParamsBoth(in) ==
  [f \in {"reviewers", "team_reviewers"} |->
     IF f = "reviewers" THEN in.reviewers
                        ELSE StripOrgPrefixFromTeams(in.teamReviewers)]

\* requestReviewersParams: a field per non-empty list
RequestReviewersParams(in) ==
  [f \in (IF Len(in.reviewers) > 0 THEN {"reviewers"} ELSE {}) \cup
         (IF Len(in.teamReviewers) > 0 THEN {"team_reviewers"} ELSE {}) |->
     IF f = "reviewers" THEN in.reviewers
                        ELSE StripOrgPrefixFromTeams(in.teamReviewers)]

\* if (Object.keys(requestReviewersParams).length > 0)
HasReviewers(in) == DOMAIN RequestReviewersParams(in) # {}

\* the metadata steps in the order of the code
MetaDue(k, in) ==
  CASE k = 1 -> HasMilestone(in)
    [] k = 2 -> HasLabels(in)
    [] k = 3 -> HasAssignees(in)
    [] k = 4 -> HasReviewers(in)

\* the next step due after step m, 5 when none is left
NextMeta(m, in) ==
  IF \E k \in (m + 1)..4 : MetaDue(k, in)
  THEN CHOOSE k \in (m + 1)..4 :
         MetaDue(k, in) /\ \A l \in (m + 1)..(k - 1) : ~MetaDue(l, in)
  ELSE 5

\* pull.number of the record createOrUpdate returned
PullNumber == results[Len(results)].number

AtMeta(k) ==
  /\ op = "createOrUpdatePullRequest" /\ pc = "returned"
  /\ NextMeta(meta, inputs) = k

\* a metadata call that adds values of one field to the pull request
MetaCall(k, name, arg, field, values, ok) ==
  /\ AtMeta(k)
  /\ calls' = Append(calls, Call(name, 0, arg))
  /\ failed' = Failed(name, ok, Len(calls) + 1)
  /\ IF ok
     THEN /\ pullMeta' = pullMeta \cup
                { [number |-> PullNumber, field |-> field, value |-> v] : v \in values }
          /\ meta' = k
          /\ UNCHANGED << pc, err >>
     ELSE /\ pc' = "error"
          /\ err' = Failure(name, ok)
          /\ UNCHANGED << pullMeta, meta >>
  /\ UNCHANGED << refs0, refsAtProbe, refsAtWrite, op, branch, logged, repository, parsed >>
  /\ UNCHANGED << commits, i, headSha, rets, treeSha, blob, treeObjects, branchExists >>
  /\ UNCHANGED << refs, objects, nextOid, otherMoves >>
  /\ UNCHANGED << atomVars, prVars >>

Range(f) == { f[x] : x \in DOMAIN f }

\* issues.update with the milestone
ApplyMilestone(ok) ==
  MetaCall(1, "issues.update",
           [issue_number |-> PullNumber, milestone |-> inputs.milestone],
           "milestone", {inputs.milestone}, ok)

\* issues.addLabels
AddLabels(ok) ==
  MetaCall(2, "issues.addLabels",
           [issue_number |-> PullNumber, labels |-> inputs.labels],
           "labels", Range(inputs.labels), ok)

\* issues.addAssignees
AddAssignees(ok) ==
  MetaCall(3, "issues.addAssignees",
           [issue_number |-> PullNumber, assignees |-> inputs.assignees],
           "assignees", Range(inputs.assignees), ok)

\* the message of the error pulls.requestReviewers throws
ReviewErrorMessage(outcome) ==
  IF outcome = "scope" THEN ERROR_PR_REVIEW_TOKEN_SCOPE ELSE "transport failure"

\* utils.getErrorMessage(e).includes(ERROR_PR_REVIEW_TOKEN_SCOPE)
IncludesTokenScope(message) == message = ERROR_PR_REVIEW_TOKEN_SCOPE

RethrownUnlessTokenScope(message) == ~IncludesTokenScope(message)

\* throw e, after the catch block's test of the message
Rethrown(message) == TRUE

\* pulls.requestReviewers with the fields built; a token-scope error is
\* reported through core.error, and every error is thrown again
RequestReviewers(outcome) ==
  /\ AtMeta(4)
  /\ LET params == RequestReviewersParams(inputs)
         arg == [pull_number |-> PullNumber, params |-> params]
         message == ReviewErrorMessage(outcome)
     IN /\ calls' = Append(calls, Call("pulls.requestReviewers", 0, arg))
        /\ failed' = Failed("pulls.requestReviewers", outcome # "transport",
                            Len(calls) + 1)
        /\ IF outcome = "ok"
           THEN /\ pullMeta' = pullMeta \cup
                     UNION { { [number |-> PullNumber, field |-> f, value |-> v] :
                                 v \in Range(params[f]) } : f \in DOMAIN params }
                /\ meta' = 4
                /\ UNCHANGED << pc, err, logged >>
           ELSE /\ logged' = IF IncludesTokenScope(message)
                             THEN Append(logged, "token scope")
                             ELSE logged
                /\ IF Rethrown(message)
                   THEN /\ pc' = "error"
                        /\ err' = Failure("pulls.requestReviewers", outcome = "scope")
                        /\ meta' = meta
                   ELSE /\ meta' = 4
                        /\ UNCHANGED << pc, err >>
                /\ pullMeta' = pullMeta
  /\ UNCHANGED << refs0, refsAtProbe, refsAtWrite, op, branch, repository, parsed >>
  /\ UNCHANGED << commits, i, headSha, rets, treeSha, blob, treeObjects, branchExists >>
  /\ UNCHANGED << refs, objects, nextOid, otherMoves >>
  /\ UNCHANGED << atomVars, prVars >>

\* return pull
ReturnPull ==
  /\ AtMeta(5)
  /\ pc' = "done"
  /\ UNCHANGED << calls, op, err, branch >>
  /\ UNCHANGED << commits, i, headSha, rets, treeSha, blob, treeObjects, branchExists >>
  /\ UNCHANGED << hostVars, histVars, atomVars, prVars, moreVars >>

Milestones == {0, 7}
Teams == { <<>>, << <<"org", "team-name">> >>, << <<"team-name">> >> }

InitPR ==
  /\ InitHost
  /\ IdleMeta
  /\ IdleParse
  /\ IdleSeq
  /\ IdleAtomic
  /\ op = "createOrUpdatePullRequest"
  /\ pc = "create"
  /\ err = NoErr
  /\ calls = <<>>
  /\ branch = <<"feature">>
  /\ inputs \in [ title : {"t"}, body : {"b"}, branch : {<<"feature">>},
                  base : {BaseBranch}, draft : {FALSE},
                  milestone : Milestones,
                  labels : { <<>>, <<"label">> },
                  assignees : { <<>>, <<"user">> },
                  reviewers : { <<>>, <<"reviewer">> },
                  teamReviewers : Teams ]
  /\ pulls \in { <<>> } \cup
       { << Pull(HeadBranch(HeadRepository, <<"feature">>), BaseBranch, st, "old", "old") >> :
           st \in {"open", "closed"} }
  /\ pulls0 = pulls
  /\ listed = <<>>
  /\ results = <<>>

NextPR ==
  \/ \E ok \in BOOLEAN : CreatePull(ok)
  \/ \E ok \in BOOLEAN : ListPulls(ok)
  \/ NoPullListed
  \/ \E ok \in BOOLEAN : UpdatePull(ok)
  \/ \E ok \in BOOLEAN : ApplyMilestone(ok)
  \/ \E ok \in BOOLEAN : AddLabels(ok)
  \/ \E ok \in BOOLEAN : AddAssignees(ok)
  \/ \E outcome \in {"ok", "scope", "transport"} : RequestReviewers(outcome)
  \/ ReturnPull
  \/ \E n \in 1..Len(pulls) : OtherClosesPull(n)
  \/ OtherOpensPull

SpecPR == InitPR /\ [][NextPR]_vars

\* ------------------------------------------------------------- parseRepository
\* a repository string is the sequence of its characters
Chars == {"a", "b", "/"}

Strings == UNION { [1..n -> Chars] : n \in 0..MaxLen }

\* the value of a destructured element the array does not have
Undefined == <<"undefined">>

HasSlash(s) == \E k \in 1..Len(s) : s[k] = "/"

FirstSlash(s) == CHOOSE k \in 1..Len(s) : s[k] = "/" /\ \A l \in 1..(k - 1) : s[l] # "/"

\* String.prototype.split: the pieces between the separators, all of them
RECURSIVE Split(_)
Split(s) ==
  IF HasSlash(s)
  THEN << SubSeq(s, 1, FirstSlash(s) - 1) >> \o Split(SubSeq(s, FirstSlash(s) + 1, Len(s)))
  ELSE << s >>

\* const [owner, repo] = repository.split('/')
parseRepository(s) ==
  LET parts == Split(s)
  IN  [owner |-> parts[1],
       repo  |-> IF Len(parts) >= 2 THEN parts[2] ELSE Undefined]

CallParseRepository ==
  /\ op = "parseRepository" /\ pc = "call"
  /\ parsed' = parseRepository(repository)
  /\ pc' = "done"
  /\ UNCHANGED << calls, op, err, branch, meta, pullMeta, logged, repository >>
  /\ UNCHANGED << commits, i, headSha, rets, treeSha, blob, treeObjects, branchExists >>
  /\ UNCHANGED << hostVars, histVars, atomVars, prVars >>

InitParse ==
  /\ InitHost
  /\ IdleMeta
  /\ IdleSeq
  /\ IdleAtomic
  /\ IdlePulls
  /\ op = "parseRepository"
  /\ pc = "call"
  /\ err = NoErr
  /\ calls = <<>>
  /\ branch = <<"feature">>
  /\ repository \in Strings
  /\ parsed = <<>>

NextParse == CallParseRepository

SpecParse == InitParse /\ [][NextParse]_vars

\* ============================================================= claims
IsCreateCommit(c) == c.op = "createCommit"
IsCreateBlob(c)   == c.op = "createBlob"
IsRefWrite(c)     == c.op = "updateRef" \/ c.op = "createRef"
CommitCalls == SelectSeq(calls, IsCreateCommit)
RefWrites   == SelectSeq(calls, IsRefWrite)
Issued(name) == \E n \in 1..Len(calls) : calls[n].op = name
IsOtherOid(h) == Len(h) = 2 /\ h[1] = "X"

\* C2: the commit-creation calls are issued in list order, one per local
\* commit, and from the second on each submits as its parents exactly the hash
\* the previous commit-creation call returned.
C2_HashThreading ==
  /\ \A n \in 1..Len(CommitCalls) : CommitCalls[n].i = n
  /\ (pc \in {"write", "done"} => Len(CommitCalls) = Len(commits))
  /\ \A n \in 2..Len(CommitCalls) : CommitCalls[n].arg.parents = << rets[n - 1] >>

\* C3: the push issues at most one ref write, only after the commit-creation
\* call of the last commit has returned and with the hash that call returned;
\* a write that the host applied put the branch at that hash; and no ref of the
\* host ever points at a commit this push created for a non-final list entry.
C3_SingleFinalRefUpdate ==
  /\ Len(RefWrites) <= 1
  /\ \A n \in 1..Len(RefWrites) :
       /\ Len(rets) = Len(commits)
       /\ (Len(commits) >= 1 => RefWrites[n].arg.sha = rets[Len(commits)])
  /\ (pc = "done" =>
        /\ Len(commits) >= 1
        /\ Len(RefWrites) = 1
        /\ HeadsRef(branch) \in DOMAIN refs
        /\ \/ refs[HeadsRef(branch)] = rets[Len(commits)]
           \/ IsOtherOid(refs[HeadsRef(branch)]))
  /\ \A r \in DOMAIN refs : \A n \in 1..Len(rets) :
       n < Len(commits) => refs[r] # rets[n]

C3_Witness ==
  /\ pc = "done" /\ Len(commits) = 2
  /\ refs[HeadsRef(branch)] = rets[2]
  /\ HostHas(rets[1], "commit")

\* C6: a tree-creation call carries one entry per change, in the order of the
\* change list, with the change's path and mode; the entry's content hash is
\* non-null exactly for the Added and Modified changes, where it is the hash
\* the host returned for the upload of that path's content; no upload is issued
\* for a change of any other status.
C6_DifferentialTreeEntries ==
  \A n \in 1..Len(calls) :
    calls[n].op = "createTree" =>
      LET ch == commits[calls[n].i].changes
          t  == calls[n].arg.tree
      IN /\ Len(ch) > 0
         /\ Len(t) = Len(ch)
         /\ \A j \in 1..Len(ch) :
              /\ t[j].path = ch[j].path
              /\ t[j].mode = ch[j].mode
              /\ (t[j].sha # NullSha <=> ch[j].status \in {"A", "M"})
              /\ (t[j].sha # NullSha =>
                    Obj(t[j].sha, "blob", Content(ch[j].path)) \in objects)
              /\ (ch[j].status \notin {"A", "M"} =>
                    \A m \in 1..Len(calls) :
                      (calls[m].op = "createBlob" /\ calls[m].i = calls[n].i)
                        => calls[m].arg.content # Content(ch[j].path))

C6_Witness ==
  \E n \in 1..Len(calls) :
    /\ calls[n].op = "createTree"
    /\ Len(calls[n].arg.tree) = 2
    /\ commits[calls[n].i].changes[1].status = "M"
    /\ calls[n].arg.tree[1].sha # NullSha
    /\ \E j \in 1..2 : calls[n].arg.tree[j].sha = NullSha

\* C7: when a blob, tree or commit creation call fails while commit i is
\* processed, the push ends in that error, no call is issued for a later
\* commit, no ref probe and no ref write is issued, no ref of the host points
\* at an object of this push (the refs are as before when nobody else wrote),
\* and every object created so far is still stored.
C7_AbortOnFailure ==
  err.op \in {"createBlob", "createTree", "createCommit"} =>
    /\ pc = "error"
    /\ err.cause = "transport"
    /\ \A n \in 1..Len(calls) :
         /\ calls[n].i <= i
         /\ calls[n].op \notin {"getRef", "updateRef", "createRef"}
    /\ (otherMoves = 0 => refs = refs0)
    /\ \A r \in DOMAIN refs : refs[r] = B0 \/ IsOtherOid(refs[r])
    /\ \A n \in 1..Len(rets) : HostHas(rets[n], "commit")
    /\ \A j \in DOMAIN treeObjects :
         treeObjects[j].sha # NullSha => HostHas(treeObjects[j].sha, "blob")

C7_Witness ==
  /\ err.op = "createTree" /\ pc = "error"
  /\ i = 2 /\ Len(commits) = 2 /\ Len(rets) = 1
  /\ \E j \in DOMAIN treeObjects : treeObjects[j].sha # NullSha

\* C8: a transport failure of any call of the sequential push ends the push
\* in an error that carries the (first) failure, and no side-effecting call is
\* issued after the failed one.
C8_TransportFailuresSurface ==
  \A f \in 1..Len(failed) :
    /\ pc = "error"
    /\ err.cause = "transport"
    /\ (f = 1 => err.op = failed[1].op)
    /\ \A n \in 1..Len(calls) : n > failed[f].at => calls[n].op = "getRef"

\* C9: createOrUpdateRef issues exactly one write; it is the non-forced update
\* of heads/<branch> when the branch existed at the probe, and the create of
\* refs/heads/<branch> when it did not.
C9_RefReconciliationByExistence ==
  /\ Len(RefWrites) <= 1
  /\ ((Issued("getRef") /\ pc \in {"done", "error"}) => Len(RefWrites) = 1)
  /\ \A n \in 1..Len(RefWrites) :
       IF HeadsRef(branch) \in DOMAIN refsAtProbe
       THEN /\ RefWrites[n].op = "updateRef"
            /\ RefWrites[n].arg = [sha |-> headSha, ref |-> <<"heads">> \o branch,
                                   force |-> FALSE]
       ELSE /\ RefWrites[n].op = "createRef"
            /\ RefWrites[n].arg = [sha |-> headSha,
                                   ref |-> <<"refs", "heads">> \o branch]

\* the branch was absent when the probe was answered and present when the
\* create call was applied
C10_RacePrecondition ==
  /\ Issued("createRef")
  /\ HeadsRef(branch) \notin DOMAIN refsAtProbe
  /\ HeadsRef(branch) \in DOMAIN refsAtWrite

\* C10: when the branch was absent at the probe, the probe reported it absent,
\* and another actor created the branch before the create call was applied,
\* the create call fails and its error reaches the caller, no update call is
\* issued, and the branch stays at a hash of the other actor.
C10_CheckThenCreateRace ==
  C10_RacePrecondition =>
    /\ pc = "error"
    /\ err.op = "createRef"
    /\ ~Issued("updateRef")
    /\ Len(RefWrites) = 1
    /\ HeadsRef(branch) \in DOMAIN refs
    /\ IsOtherOid(refs[HeadsRef(branch)])

C10_Witness ==
  /\ C10_RacePrecondition
  /\ err = Failure("createRef", TRUE)
  /\ Len(commits) >= 1
  /\ refs[HeadsRef(branch)] = OtherOid(1)


IsPushMutation(c)   == c.op = "createCommitOnBranch"
IsBranchMutation(c) == c.op = "createRefMutation"
PushMutations   == SelectSeq(calls, IsPushMutation)
BranchMutations == SelectSeq(calls, IsBranchMutation)
CallPlace(name) == CHOOSE n \in 1..Len(calls) : calls[n].op = name

\* the commit mutation was applied while the branch was not at expectedHeadOid
C4_HeadMoved ==
  /\ Len(PushMutations) >= 1
  /\ HeadsRef(branch) \in DOMAIN refsAtWrite
  /\ refsAtWrite[HeadsRef(branch)] # PushMutations[1].arg.expectedHeadOid

\* C4: when the commit mutation is applied while the branch's head differs
\* from the expectedHeadOid it carries (the hash the initial query read, or
\* the base hash the branch was created at), the push ends in the mutation's
\* error, the branch stays where the other actor put it, the host holds no
\* commit of this push, and the mutation was issued once only.
C4_OptimisticConcurrencyRejection ==
  C4_HeadMoved =>
    /\ pc = "error"
    /\ err.op = "createCommitOnBranch"
    /\ Len(PushMutations) = 1
    /\ PushMutations[1].arg.expectedHeadOid =
         IF HeadsRef(branch) \in DOMAIN refsAtProbe
         THEN refsAtProbe[HeadsRef(branch)]
         ELSE BranchMutations[1].arg.oid
    /\ HeadsRef(branch) \in DOMAIN refs
    /\ IsOtherOid(refs[HeadsRef(branch)])
    /\ (otherMoves = 1 => refs[HeadsRef(branch)] = refsAtWrite[HeadsRef(branch)])
    /\ \A o \in objects : o.oid[1] # "R"

C4_Witness ==
  /\ C4_HeadMoved
  /\ err = Failure("createCommitOnBranch", TRUE)
  /\ HeadsRef(branch) \in DOMAIN refsAtProbe
  /\ refs[HeadsRef(branch)] = OtherOid(1)

\* the branch as the initial query saw it
C5_SeenAtQuery == HeadsRef(branch) \in DOMAIN refsAtProbe
\* the initial query was answered (the refs it saw are recorded)
C5_QueryAnswered ==
  /\ DOMAIN refsAtProbe # {}
  /\ calls[1] = Call("refQuery", 0, [branchName |-> branch])

\* what C5 says of the commit mutation and of the shape of the branch-creation
\* mutation (the part the code satisfies as stated)
C5_Common ==
  /\ Len(PushMutations) <= 1
  /\ Len(BranchMutations) <= 1
  /\ (Len(PushMutations) = 1 =>
        /\ C5_QueryAnswered
        /\ IF C5_SeenAtQuery
           THEN /\ Len(BranchMutations) = 0
                /\ PushMutations[1].arg.expectedHeadOid = refsAtProbe[HeadsRef(branch)]
           ELSE /\ Len(BranchMutations) = 1
                /\ CallPlace("createRefMutation") < CallPlace("createCommitOnBranch")
                /\ PushMutations[1].arg.expectedHeadOid = BranchMutations[1].arg.oid)
  /\ (Len(BranchMutations) = 1 =>
        /\ C5_QueryAnswered /\ ~C5_SeenAtQuery
        /\ BranchMutations[1].arg.branchName = <<"refs", "heads">> \o branch
        /\ HeadsRef(base) \in DOMAIN refs
        /\ BranchMutations[1].arg.oid = refs[HeadsRef(base)])

\* C5 (as stated): the commit mutation is issued at most once and only after
\* the branch was seen by the initial query or created by this push; the
\* branch-creation mutation is issued if and only if the initial query found
\* the branch absent, names refs/heads/<branch> at the base's hash and precedes
\* the commit mutation; expectedHeadOid is the hash seen, or the base's hash.
\* (Read here of the executions in which no call failed in transport.)
C5_AtomicPushStateMachine ==
  /\ C5_Common
  /\ ((pc \in {"done", "error"} /\ failed = <<>>) =>
        (Len(BranchMutations) = 1 <=> (C5_QueryAnswered /\ ~C5_SeenAtQuery)))

\* C5 (amended): as stated, except that the branch-creation mutation is issued
\* if and only if the initial query found the branch absent and the query for
\* the base returned a ref.
C5_AtomicPushStateMachineAmended ==
  /\ C5_Common
  /\ (pc \in {"done", "error"} =>
        (Len(BranchMutations) = 1 <=>
           /\ C5_QueryAnswered /\ ~C5_SeenAtQuery
           /\ Len(calls) >= 2
           /\ calls[2] = Call("refQuery", 0, [branchName |-> base])
           /\ branchRef # <<>>))

C5_Witness ==
  /\ pc = "done"
  /\ ~C5_SeenAtQuery
  /\ Len(BranchMutations) = 1
  /\ PushMutations[1].arg.expectedHeadOid = B0
  /\ refs[HeadsRef(branch)] = RemoteOid(1)


\* the open pull requests of the head and base; two returned invocations,
\* nobody else writing, no open pull request for the pair at the start
C1_Pair == OpenPulls(pulls, HeadBranch(HeadRepository, inputs.branch), inputs.base)

C1_TwoUndisturbedCalls ==
  /\ Len(results) >= 2
  /\ otherMoves = 0
  /\ OpenPulls(pulls0, HeadBranch(HeadRepository, inputs.branch), inputs.base) = <<>>

\* C1: from a host without an open pull request for the head and base, and
\* with no other actor writing, two successive calls of createOrUpdate with
\* the same inputs return created = TRUE and then created = FALSE with the same
\* number, and the host then holds exactly one open pull request for the pair.
C1_IdempotentReconciliation ==
  C1_TwoUndisturbedCalls =>
    /\ results[1].created = TRUE
    /\ results[2].created = FALSE
    /\ results[1].number = results[2].number
    /\ C1_Pair = << results[1].number >>

C1_Witness ==
  /\ C1_TwoUndisturbedCalls
  /\ Len(pulls0) = 1
  /\ results[2] = [number |-> 2, created |-> FALSE]
  /\ pc = "returned"

\* ------------------------------------------------- createOrUpdatePullRequest
IsMetaCall(c) ==
  c.op \in {"issues.update", "issues.addLabels", "issues.addAssignees",
            "pulls.requestReviewers"}
MetaCalls == SelectSeq(calls, IsMetaCall)

\* pulls.create failed with an error that does not say a pull request exists
C11_CreationFailed ==
  /\ op = "createOrUpdatePullRequest"
  /\ failed # <<>> /\ failed[1].op = "pulls.create"

\* C11: when pulls.create fails with an error whose message does not say that
\* a pull request already exists, that error reaches the caller and no list,
\* update or metadata call is issued: pulls.create stays the only call.
C11_FatalCreationFailure ==
  C11_CreationFailed =>
    /\ pc = "error"
    /\ err = Failure("pulls.create", FALSE)
    /\ calls = << calls[1] >> /\ calls[1].op = "pulls.create"
    /\ ~Issued("pulls.list") /\ ~Issued("pulls.update") /\ MetaCalls = <<>>
    /\ results = <<>>

C11_Witness ==
  /\ C11_CreationFailed
  /\ pc = "error"
  /\ OpenPulls(pulls, HeadBranch(HeadRepository, inputs.branch), inputs.base) # <<>>
  /\ HasMilestone(inputs) /\ HasLabels(inputs) /\ HasReviewers(inputs)

\* the place of a metadata call in the order of the code
MetaRank(c) ==
  CASE c.op = "issues.update" -> 1
    [] c.op = "issues.addLabels" -> 2
    [] c.op = "issues.addAssignees" -> 3
    [] c.op = "pulls.requestReviewers" -> 4

\* the pull request a metadata call names
MetaTarget(c) ==
  IF c.op = "pulls.requestReviewers" THEN c.arg.pull_number ELSE c.arg.issue_number

MetaIssued(k) == \E n \in 1..Len(MetaCalls) : MetaRank(MetaCalls[n]) = k

C12_Specified(k) ==
  CASE k = 1 -> inputs.milestone # 0
    [] k = 2 -> inputs.labels # <<>>
    [] k = 3 -> inputs.assignees # <<>>
    [] k = 4 -> inputs.reviewers # <<>> \/ inputs.teamReviewers # <<>>

\* C12: the metadata calls come after createOrUpdate has returned (after every
\* pulls.create, pulls.list and pulls.update call, with the record returned),
\* each at most once and in the order milestone, labels, assignees, reviewer
\* request; a call is issued only if its input is specified, no specified step
\* is skipped on the way to a later one, and when the operation returns a call
\* has been issued for exactly the specified steps; every call names the
\* number createOrUpdate returned.
C12_FixedMetadataOrder ==
  op = "createOrUpdatePullRequest" =>
    /\ \A n \in 1..Len(calls) :
         IsMetaCall(calls[n]) =>
           /\ Len(results) = 1
           /\ \A m \in 1..Len(calls) : ~IsMetaCall(calls[m]) => m < n
    /\ \A n, m \in 1..Len(MetaCalls) :
         n < m => MetaRank(MetaCalls[n]) < MetaRank(MetaCalls[m])
    /\ \A k \in 1..4 : MetaIssued(k) => C12_Specified(k)
    /\ \A k, l \in 1..4 : k < l /\ MetaIssued(l) /\ C12_Specified(k) => MetaIssued(k)
    /\ pc = "done" => \A k \in 1..4 : MetaIssued(k) <=> C12_Specified(k)
    /\ \A n \in 1..Len(MetaCalls) : MetaTarget(MetaCalls[n]) = results[1].number

C12_Witness ==
  /\ op = "createOrUpdatePullRequest" /\ pc = "done"
  /\ Len(MetaCalls) = 3
  /\ ~C12_Specified(2)
  /\ inputs.reviewers = <<>> /\ inputs.teamReviewers # <<>>
  /\ results[1] = [number |-> 1, created |-> FALSE]

\* what a metadata call that succeeded leaves on the host
MetaEffect(c) ==
  CASE c.op = "issues.update" ->
         { [number |-> c.arg.issue_number, field |-> "milestone", value |-> c.arg.milestone] }
    [] c.op = "issues.addLabels" ->
         { [number |-> c.arg.issue_number, field |-> "labels", value |-> v] :
             v \in Range(c.arg.labels) }
    [] c.op = "issues.addAssignees" ->
         { [number |-> c.arg.issue_number, field |-> "assignees", value |-> v] :
             v \in Range(c.arg.assignees) }
    [] c.op = "pulls.requestReviewers" ->
         UNION { { [number |-> c.arg.pull_number, field |-> f, value |-> v] :
                     v \in Range(c.arg.params[f]) } : f \in DOMAIN c.arg.params }

\* a metadata call failed: in transport, or refused for the token's scope
C13_MetaFailed ==
  /\ op = "createOrUpdatePullRequest"
  /\ \/ failed # <<>> /\ failed[1].op \in {"issues.update", "issues.addLabels",
                                           "issues.addAssignees", "pulls.requestReviewers"}
     \/ logged # <<>>

\* C13: when a metadata call fails, the pull request created or updated and
\* the effect of every earlier metadata call remain on the host, the failed
\* call is the last call issued (no compensating call, no later step), and
\* its error reaches the caller; this holds for the reviewer request whether
\* or not the error is recognised as a token-scope error.
C13_NoRollbackOfMetadata ==
  C13_MetaFailed =>
    /\ pc = "error"
    /\ IsMetaCall(calls[Len(calls)])
    /\ err.op = calls[Len(calls)].op
    /\ \A n \in 1..Len(calls) - 1 : IsMetaCall(calls[n]) => MetaEffect(calls[n]) \subseteq pullMeta
    /\ Len(results) = 1
    /\ pulls[results[1].number].title = inputs.title
    /\ pulls[results[1].number].body = inputs.body

C13_Witness ==
  /\ C13_MetaFailed
  /\ logged # <<>>
  /\ pc = "error" /\ err = Failure("pulls.requestReviewers", TRUE)
  /\ Len(MetaCalls) = 3
  /\ [number |-> results[1].number, field |-> "milestone", value |-> 7] \in pullMeta
  /\ [number |-> results[1].number, field |-> "labels", value |-> "label"] \in pullMeta

IsReviewerRequest(c) == c.op = "pulls.requestReviewers"
ReviewerRequests == SelectSeq(calls, IsReviewerRequest)

\* C14: a reviewer-request call carries the user reviewers as given and each
\* team reviewer as its name without the organisation prefix; it has a
\* reviewers field exactly when the user-reviewer list is non-empty and a
\* team_reviewers field exactly when the team-reviewer list is non-empty.
C14_ReviewerPayload ==
  \A n \in 1..Len(ReviewerRequests) :
    LET params == ReviewerRequests[n].arg.params
    IN  /\ ("reviewers" \in DOMAIN params) <=> (inputs.reviewers # <<>>)
        /\ ("team_reviewers" \in DOMAIN params) <=> (inputs.teamReviewers # <<>>)
        /\ DOMAIN params \subseteq {"reviewers", "team_reviewers"}
        /\ "reviewers" \in DOMAIN params => params.reviewers = inputs.reviewers
        /\ "team_reviewers" \in DOMAIN params =>
             /\ Len(params.team_reviewers) = Len(inputs.teamReviewers)
             /\ \A t \in 1..Len(inputs.teamReviewers) :
                  LET given == inputs.teamReviewers[t]
                  IN  params.team_reviewers[t] = << given[Len(given)] >>

C14_Witness ==
  /\ Len(ReviewerRequests) = 1
  /\ inputs.reviewers = <<>>
  /\ inputs.teamReviewers = << <<"org", "team-name">> >>
  /\ ReviewerRequests[1].arg.params = [team_reviewers |-> << <<"team-name">> >>]

\* ------------------------------------------------- createCommit, its tree
CallsOf(name, k) == SelectSeq(calls, LAMBDA c : c.op = name /\ c.i = k)

\* C15: for a commit with an empty change list no blob and no tree call is
\* issued and its commit-creation call references the tree the local commit
\* declares; for a non-empty change list one tree call is issued (never two)
\* and the commit-creation call references the hash that call returned.
C15_EmptyChangeList ==
  op = "pushSignedCommits" =>
    \A k \in 1..Len(commits) :
      IF commits[k].changes = <<>>
      THEN /\ CallsOf("createBlob", k) = <<>>
           /\ CallsOf("createTree", k) = <<>>
           /\ \A n \in 1..Len(CallsOf("createCommit", k)) :
                CallsOf("createCommit", k)[n].arg.tree = commits[k].tree
      ELSE /\ Len(CallsOf("createTree", k)) <= 1
           /\ \A n \in 1..Len(CallsOf("createCommit", k)) :
                LET tree == CallsOf("createCommit", k)[n].arg.tree
                IN  /\ Len(CallsOf("createTree", k)) = 1
                    /\ tree # commits[k].tree
                    /\ Obj(tree, "tree", CallsOf("createTree", k)[1].arg) \in objects

C15_Witness ==
  /\ op = "pushSignedCommits"
  /\ Len(commits) = 2
  /\ commits[1].changes = <<>> /\ commits[2].changes # <<>>
  /\ Len(CallsOf("createCommit", 1)) = 1 /\ Len(CallsOf("createCommit", 2)) = 1
  /\ CallsOf("createCommit", 1)[1].arg.tree = commits[1].tree
  /\ Len(CallsOf("createTree", 2)) = 1

\* the content stored under the hash of a tree entry
ContentOf(sha) ==
  IF sha = NullSha THEN NullSha
  ELSE IF HostHas(sha, "blob")
       THEN (CHOOSE o \in objects : o.oid = sha /\ o.kind = "blob").data
       ELSE <<"unknown">>

\* the entries of a change list, each with the content its hash stands for:
\* nothing in it depends on the order in which the uploads complete
EntriesByContent(changes) ==
  [j \in 1..Len(changes) |->
     [path |-> changes[j].path, mode |-> changes[j].mode, type |-> "blob",
      content |-> IF NeedsBlob(changes[j]) THEN Content(changes[j].path) ELSE NullSha]]

C16_UploadFailed == \E f \in 1..Len(failed) : failed[f].op = "createBlob"

\* C16: the uploads of one createCommit complete in any order; a tree-creation
\* call is issued only when every upload of that commit has been answered
\* with a hash, what it submits (entries, and the content each hash stands
\* for) is fixed by the change list whatever the order of completion, and
\* when an upload fails neither the tree-creation nor the commit-creation call
\* of that commit is issued.
C16_UploadsJoinedBeforeTree ==
  op = "pushSignedCommits" =>
    /\ \A k \in 1..Len(commits) :
         \A n \in 1..Len(CallsOf("createTree", k)) :
           LET t == CallsOf("createTree", k)[n].arg.tree
           IN  /\ k = i /\ pc \in {"blobs", "commit", "error"} => AllUploaded(blob)
               /\ [j \in DOMAIN t |->
                     [path |-> t[j].path, mode |-> t[j].mode, type |-> t[j].type,
                      content |-> ContentOf(t[j].sha)]]
                    = EntriesByContent(commits[k].changes)
    /\ C16_UploadFailed =>
         /\ pc = "error"
         /\ CallsOf("createTree", i) = <<>>
         /\ CallsOf("createCommit", i) = <<>>

\* the second upload was answered before the first
C16_Witness ==
  /\ op = "pushSignedCommits"
  /\ \E k \in 1..Len(commits) :
       /\ Len(CallsOf("createBlob", k)) = 2
       /\ Len(CallsOf("createTree", k)) = 1
       /\ LET t == CallsOf("createTree", k)[1].arg.tree
          IN  t[1].sha[2] > t[2].sha[2]

\* ------------------------------------------------- pushSignedCommits, its ref
\* C18: the target of every ref create or update pushSignedCommits issues is a
\* hash returned by a commit-creation call of the same push; for an empty
\* commit list no ref write is issued with the empty hash.
C18_RefTargetProvenance ==
  op = "pushSignedCommits" =>
    \A n \in 1..Len(RefWrites) :
      /\ \E m \in 1..Len(rets) : RefWrites[n].arg.sha = rets[m]
      /\ RefWrites[n].arg.sha # EmptySha

\* ------------------------------------------------- pushSignedCommit, no base
\* the branch was found absent and the query for the base was answered with
\* no ref
C19_BaseMissing ==
  /\ op = "pushSignedCommit"
  /\ Len(calls) >= 2
  /\ calls[1] = Call("refQuery", 0, [branchName |-> branch])
  /\ calls[2] = Call("refQuery", 0, [branchName |-> base])
  /\ \A f \in 1..Len(failed) : failed[f].at > 2
  /\ branchRef = <<>>

\* C19: when the branch is found absent and the query for the base finds no
\* ref either, pushSignedCommit ends in an error, the two queries are its only
\* calls (no branch-creation and no commit mutation), and it has changed
\* nothing on the host.
C19_MissingBaseInAtomicPath ==
  C19_BaseMissing =>
    /\ pc = "error"
    /\ err = [op |-> "TypeError", cause |-> "null ref"]
    /\ Len(calls) = 2
    /\ BranchMutations = <<>> /\ PushMutations = <<>>
    /\ \A o \in objects : o.oid = B0 \/ IsOtherOid(o.oid)
    /\ \A r \in DOMAIN refs : refs[r] = B0 \/ IsOtherOid(refs[r])
    /\ otherMoves = 0 => refs = refs0

C19_Witness ==
  /\ C19_BaseMissing
  /\ base = MissingBase
  /\ pc = "error"
  /\ HeadsRef(branch) \notin DOMAIN refs

\* ------------------------------------------------- createOrUpdate, the list
IsCreatePull(c) == c.op = "pulls.create"

\* the last call is a pulls.list that the host answered with an empty list
C20_ListedNone ==
  /\ op = "createOrUpdate"
  /\ calls # <<>> /\ calls[Len(calls)].op = "pulls.list"
  /\ \A f \in 1..Len(failed) : failed[f].at # Len(calls)
  /\ listed = <<>>

\* C20: pulls.update directly follows a pulls.list filtered by state open, the
\* requested head and the requested base, and names the first pull request
\* that list returned; when the list is empty (the pull request that made the
\* creation fail was closed by someone else meanwhile) no pulls.update is
\* issued and the operation ends in an error without returning a record.
C20_ReconciliationUnderConcurrentClose ==
  op = "createOrUpdate" =>
    /\ \A n \in 1..Len(calls) :
         calls[n].op = "pulls.update" =>
           /\ n > 1 /\ calls[n - 1].op = "pulls.list"
           /\ calls[n - 1].arg = [state |-> "open",
                                  head |-> HeadBranch(HeadRepository, inputs.branch),
                                  base |-> inputs.base]
           /\ pulls[calls[n].arg.pull_number].head = calls[n - 1].arg.head
           /\ pulls[calls[n].arg.pull_number].base = calls[n - 1].arg.base
           /\ (n = Len(calls) /\ pc # "create" =>
                 listed # <<>> /\ calls[n].arg.pull_number = listed[1])
    /\ C20_ListedNone =>
         /\ pc = "update" \/ (pc = "error" /\ err.op = "TypeError")
         /\ Len(SelectSeq(calls, IsCreatePull)) = Len(results) + 1

\* the only open pull request of the pair was closed after pulls.create was
\* refused and before pulls.list
C20_Witness ==
  /\ C20_ListedNone
  /\ pc = "error" /\ err = [op |-> "TypeError", cause |-> "no pull request listed"]
  /\ Len(calls) = 2 /\ calls[1].op = "pulls.create"
  /\ otherMoves = 1
  /\ Len(pulls) = 1 /\ pulls0[1].state = "open" /\ pulls[1].state = "closed"
  /\ results = <<>>

\* ------------------------------------------------- parseRepository
\* C17: for every input with at least one '/', parseRepository returns as
\* owner the text before the first '/' and as name all the text after the
\* first '/' (further '/' characters stay inside the name), and it ends
\* without an error for every input.
C17_SplitsOnceOnFirstSlash ==
  op = "parseRepository" /\ pc = "done" =>
    /\ err = NoErr
    /\ HasSlash(repository) =>
         /\ parsed.owner = SubSeq(repository, 1, FirstSlash(repository) - 1)
         /\ parsed.repo = SubSeq(repository, FirstSlash(repository) + 1, Len(repository))

====
